---- MODULE Spec2Model ----
(***************************************************************************)
(* A model of package quotes (quotes.go): a QuoteDB wraps one sqlite       *)
(* table `quotes` and a cached row count nQuotes guarded by an embedded    *)
(* sync.RWMutex.  Every SQL statement is one atomic step of the storage    *)
(* engine; the Go code around the statements is split at every lock        *)
(* operation and at every access to nQuotes, so that concurrent callers    *)
(* interleave exactly where goroutines can.                                *)
(***************************************************************************)
EXTENDS Integers, Sequences, FiniteSets, TLC

\* Bounds of the model.
NumProcs == 2
MaxId == 2

Procs == 1..NumProcs
Ids == 1..MaxId

\* Inputs: the strings callers pass, and the values of time.Now().Unix().
Authors == {"", "alice"}
Texts == {"", "hi"}
Dates == {100, 200}

\* The smaller inputs of the runs with every goroutine calling at once: what
\* AddQuote is given, and the texts EditQuote is given.
FewAuthors == {"alice"}
FewTexts == {"hi"}
FewEdits == {"yo"}
FewDates == {100}

VARIABLES
    rows,     \* the quotes table: rowid -> [date, author, quote]
    nQuotes,  \* QuoteDB.nQuotes
    wlock,    \* the goroutines holding the RWMutex exclusively (at most one)
    rlock,    \* the goroutines holding the RWMutex shared
    pc,       \* each goroutine's position
    call,     \* each goroutine's locals in its current call
    wins,     \* goroutines whose last call was a DelQuote that returned true
    solo,     \* the goroutine (if any) no other goroutine has stepped during whose call
    pre,      \* the store as that goroutine's call found it, and its arguments
    ev        \* the return made by the last step, if it was one

vars == <<rows, nQuotes, wlock, rlock, pc, call, wins, solo, pre, ev>>

----------------------------------------------------------------------------
\* The storage engine.

Max(S) == CHOOSE x \in S : \A y \in S : y <= x

EmptyTable == [i \in {} |-> [date |-> 0, author |-> "", quote |-> ""]]

\* The tables over the given column values, and those with a row for every id.
TablesOver(D, A, T) ==
    UNION {[S -> [date : D, author : A, quote : T]] : S \in SUBSET Ids}

FullTablesOver(D, A, T) == [Ids -> [date : D, author : A, quote : T]]

\* A Go value bound to a statement parameter: an int64 is bound as an
\* INTEGER and a string, the empty one too, as a TEXT; nothing AddQuote can
\* pass is bound as NULL.
SqlNull == <<"null">>

BindInt(n) == <<"integer", n>>

BindTextEmptyAsNull(s) == IF s = "" THEN SqlNull ELSE <<"text", s>>

BindText(s) == <<"text", s>>

\* The column constraint NOT NULL of sqlCreateTable.
NotNull(v) == v # SqlNull

\* id INTEGER PRIMARY KEY is an alias of the rowid: an insert that gives no
\* id gets one more than the largest rowid in the table, 1 in an empty table.
NextRowid(t) == IF DOMAIN t = {} THEN 1 ELSE Max(DOMAIN t) + 1

\* SELECT COUNT(*) FROM quotes, scanned into nQuotes.
getCount(t) == Cardinality(DOMAIN t)

\* INSERT INTO quotes (date, author, quote) VALUES(?, ?, ?)
sqlAddSwapped(t, date, author, quote) ==
    LET id == NextRowid(t) IN
    [ok |-> TRUE, id |-> id,
     rows |-> [i \in DOMAIN t \cup {id} |->
                 IF i = id THEN [date |-> date, author |-> quote, quote |-> author]
                           ELSE t[i]]]

sqlAdd(t, date, author, quote) ==
    LET id == NextRowid(t) IN
    IF NotNull(BindInt(date)) /\ NotNull(BindText(author)) /\ NotNull(BindText(quote))
    THEN [ok |-> TRUE, id |-> id,
          rows |-> [i \in DOMAIN t \cup {id} |->
                      IF i = id THEN [date |-> date, author |-> author, quote |-> quote]
                                ELSE t[i]]]
    ELSE [ok |-> FALSE, id |-> 0, rows |-> t]

\* DELETE FROM quotes WHERE id = ?   (r: RowsAffected)
sqlDelAlways(t, id) ==
    [r |-> 1, rows |-> [i \in DOMAIN t \ {id} |-> t[i]]]

sqlDel(t, id) ==
    [r |-> IF id \in DOMAIN t THEN 1 ELSE 0,
     rows |-> [i \in DOMAIN t \ {id} |-> t[i]]]

\* UPDATE quotes SET quote = ? WHERE id = ?   (r: RowsAffected; sqlite counts
\* every row the WHERE matches, whether or not the new text differs)
sqlEditNoWhere(t, quote, id) ==
    [r |-> IF id \in DOMAIN t THEN 1 ELSE 0,
     rows |-> [i \in DOMAIN t |-> [t[i] EXCEPT !.quote = quote]]]

sqlEdit(t, quote, id) ==
    [r |-> IF id \in DOMAIN t THEN 1 ELSE 0,
     rows |-> [i \in DOMAIN t |-> IF i = id THEN [t[i] EXCEPT !.quote = quote] ELSE t[i]]]

\* SELECT id, quote FROM quotes ORDER BY RANDOM() LIMIT 1: the rows the
\* statement may return (none on an empty table).
sqlGetAnyId(t) ==
    {[id |-> i, quote |-> t[j].quote] : i \in Ids, j \in DOMAIN t}

sqlGet(t) == {[id |-> i, quote |-> t[i].quote] : i \in DOMAIN t}

\* SELECT quote FROM quotes WHERE id = ?
sqlGetId(t, id) == {[quote |-> t[i].quote] : i \in DOMAIN t \cap {id}}

\* SELECT date, author FROM quotes WHERE id = ?
sqlGetDetail(t, id) ==
    {[date |-> t[i].date, author |-> t[i].author] : i \in DOMAIN t \cap {id}}

\* SELECT id, date, author, quote FROM quotes order by id desc
RECURSIVE OrderByIdDesc(_, _)
OrderByIdDesc(t, S) ==
    IF S = {} THEN <<>>
    ELSE LET i == Max(S) IN
         <<[id |-> i, date |-> t[i].date, author |-> t[i].author, quote |-> t[i].quote]>>
         \o OrderByIdDesc(t, S \ {i})

Min(S) == CHOOSE x \in S : \A y \in S : x <= y

RECURSIVE OrderByIdAsc(_, _)
OrderByIdAsc(t, S) ==
    IF S = {} THEN <<>>
    ELSE LET i == Min(S) IN
         <<[id |-> i, date |-> t[i].date, author |-> t[i].author, quote |-> t[i].quote]>>
         \o OrderByIdAsc(t, S \ {i})

sqlGetAllAsc(t) == OrderByIdAsc(t, DOMAIN t)

sqlGetAll(t) == OrderByIdDesc(t, DOMAIN t)

\* time.Unix(date, 0).UTC()
UnixUTC(date) == [sec |-> date, nsec |-> 0, loc |-> "UTC"]

\* The loop of GetAll: one Quote per row of the result, in its order.
ScanAll(res) ==
    [k \in 1..Len(res) |->
        [ID |-> res[k].id, Date |-> UnixUTC(res[k].date),
         Author |-> res[k].author, Quote |-> res[k].quote]]

----------------------------------------------------------------------------
\* The Go side.

NoCall ==
    [op |-> "none", id |-> 0, author |-> "", quote |-> "", err |-> "nil", val |-> 0,
     existed |-> FALSE]

NoPre == [rows |-> EmptyTable, n |-> 0, author |-> "", quote |-> ""]

Snap(author, quote) == [rows |-> rows, n |-> nQuotes, author |-> author, quote |-> quote]

\* What a return hands to the caller (the fields a function does not return
\* keep these values), with what the call found: pre, the store and the
\* arguments at its start if no other goroutine stepped during the call
\* (solo); existed, whether the statement found the row it names.
NoRet ==
    [op |-> "none", id |-> 0, quote |-> "", author |-> "", date |-> 0, ok |-> FALSE,
     err |-> "nil", val |-> 0, quotes |-> <<>>, existed |-> FALSE, solo |-> FALSE,
     pre |-> NoPre]

\* Bookkeeping of a step of p that enters a call, continues one, leaves one.
Enter(p, author, quote) ==
    /\ solo' = {p}
    /\ pre' = Snap(author, quote)
    /\ wins' = wins \ {p}
    /\ ev' = {}

Continue(p) ==
    /\ solo' = solo \cap {p}
    /\ pre' = IF solo = {p} THEN pre ELSE NoPre
    /\ wins' = wins
    /\ ev' = {}

Leave(p, won, r) ==
    /\ solo' = {}
    /\ pre' = NoPre
    /\ wins' = IF won THEN wins \cup {p} ELSE wins \ {p}
    /\ ev' = {[r EXCEPT !.solo = (solo = {p}), !.pre = IF solo = {p} THEN pre ELSE NoPre]}

\* sync.RWMutex: Lock waits until nobody holds the mutex, RLock until no
\* writer holds it.  (Go also makes RLock wait behind a Lock that is waiting;
\* that only removes interleavings.)
CanLock == wlock = {} /\ rlock = {}

CanRLockAnyway == TRUE

CanRLock == wlock = {}

\* q.nQuotes++ and q.nQuotes--
IncrNot(n) == n

Incr(n) == n + 1

Decr(n) == n - 1

\* r == 1
OneRowAny(r) == r >= 0

OneRow(r) == r = 1

\* Where AddQuote goes when the insert fails: it returns, and the deferred
\* q.Unlock() runs.
AddFailedLeak == "idle"

AddFailed == "add_unlock"

\* The statuses a storage statement may end with: done, or failed by the engine.
Faults == {FALSE, TRUE}

----------------------------------------------------------------------------
\* NQuotes

NqRLock(p) ==
    /\ pc[p] = "idle"
    /\ CanRLock
    /\ rlock' = rlock \cup {p}
    /\ pc' = [pc EXCEPT ![p] = "nq_read"]
    /\ call' = [call EXCEPT ![p] = [NoCall EXCEPT !.op = "NQuotes"]]
    /\ Enter(p, "", "")
    /\ UNCHANGED <<rows, nQuotes, wlock>>

NqRead(p) ==
    /\ pc[p] = "nq_read"
    /\ call' = [call EXCEPT ![p].val = nQuotes]
    /\ pc' = [pc EXCEPT ![p] = "nq_runlock"]
    /\ Continue(p)
    /\ UNCHANGED <<rows, nQuotes, wlock, rlock>>

NqRUnlock(p) ==
    /\ pc[p] = "nq_runlock"
    /\ rlock' = rlock \ {p}
    /\ pc' = [pc EXCEPT ![p] = "idle"]
    /\ call' = [call EXCEPT ![p] = NoCall]
    /\ Leave(p, FALSE, [NoRet EXCEPT !.op = "NQuotes", !.ok = TRUE, !.val = call[p].val])
    /\ UNCHANGED <<rows, nQuotes, wlock>>

----------------------------------------------------------------------------
\* AddQuote.  The model stops inserting at rowid MaxId.

AddLock(p, author, quote) ==
    /\ pc[p] = "idle"
    /\ CanLock
    /\ NextRowid(rows) <= MaxId
    /\ wlock' = wlock \cup {p}
    /\ pc' = [pc EXCEPT ![p] = "add_exec"]
    /\ call' = [call EXCEPT ![p] = [NoCall EXCEPT !.op = "AddQuote",
                                                !.author = author, !.quote = quote]]
    /\ Enter(p, author, quote)
    /\ UNCHANGED <<rows, nQuotes, rlock>>

\* go-sqlite3's LastInsertId returns the rowid and never an error.
AddExec(p, now, fault) ==
    /\ pc[p] = "add_exec"
    /\ LET res == sqlAdd(rows, now, call[p].author, call[p].quote) IN
       IF fault \/ ~res.ok
       THEN /\ call' = [call EXCEPT ![p] = [NoCall EXCEPT !.op = "AddQuote",
                            !.err = IF fault THEN "io" ELSE "constraint"]]
            /\ pc' = [pc EXCEPT ![p] = AddFailed]
            /\ rows' = rows
       ELSE /\ call' = [call EXCEPT ![p] = [NoCall EXCEPT !.op = "AddQuote", !.id = res.id]]
            /\ pc' = [pc EXCEPT ![p] = "add_inc"]
            /\ rows' = res.rows
    /\ Continue(p)
    /\ UNCHANGED <<nQuotes, wlock, rlock>>

AddInc(p) ==
    /\ pc[p] = "add_inc"
    /\ nQuotes' = Incr(nQuotes)
    /\ pc' = [pc EXCEPT ![p] = "add_unlock"]
    /\ Continue(p)
    /\ UNCHANGED <<rows, wlock, rlock, call>>

AddUnlock(p) ==
    /\ pc[p] = "add_unlock"
    /\ wlock' = wlock \ {p}
    /\ pc' = [pc EXCEPT ![p] = "idle"]
    /\ call' = [call EXCEPT ![p] = NoCall]
    /\ Leave(p, FALSE, [NoRet EXCEPT !.op = "AddQuote", !.id = call[p].id,
                                     !.ok = (call[p].err = "nil"), !.err = call[p].err])
    /\ UNCHANGED <<rows, nQuotes, rlock>>

----------------------------------------------------------------------------
\* DelQuote

DelCall(p, id) ==
    /\ pc[p] = "idle"
    /\ pc' = [pc EXCEPT ![p] = "del_exec"]
    /\ call' = [call EXCEPT ![p] = [NoCall EXCEPT !.op = "DelQuote", !.id = id]]
    /\ Enter(p, "", "")
    /\ UNCHANGED <<rows, nQuotes, wlock, rlock>>

DelExec(p, fault) ==
    /\ pc[p] = "del_exec"
    /\ LET res == sqlDel(rows, call[p].id)
           existed == call[p].id \in DOMAIN rows
           r == [NoRet EXCEPT !.op = "DelQuote", !.id = call[p].id, !.existed = existed]
       IN
       IF fault
       THEN /\ rows' = rows
            /\ pc' = [pc EXCEPT ![p] = "idle"]
            /\ call' = [call EXCEPT ![p] = NoCall]
            /\ Leave(p, FALSE, [r EXCEPT !.err = "io"])
       ELSE /\ rows' = res.rows
            /\ IF OneRow(res.r)
               THEN /\ pc' = [pc EXCEPT ![p] = "del_lock"]
                    /\ call' = [call EXCEPT ![p].existed = existed]
                    /\ Continue(p)
               ELSE /\ pc' = [pc EXCEPT ![p] = "idle"]
                    /\ call' = [call EXCEPT ![p] = NoCall]
                    /\ Leave(p, FALSE, r)
    /\ UNCHANGED <<nQuotes, wlock, rlock>>

DelLock(p) ==
    /\ pc[p] = "del_lock"
    /\ CanLock
    /\ wlock' = wlock \cup {p}
    /\ pc' = [pc EXCEPT ![p] = "del_dec"]
    /\ Continue(p)
    /\ UNCHANGED <<rows, nQuotes, rlock, call>>

DelDec(p) ==
    /\ pc[p] = "del_dec"
    /\ nQuotes' = Decr(nQuotes)
    /\ pc' = [pc EXCEPT ![p] = "del_unlock"]
    /\ Continue(p)
    /\ UNCHANGED <<rows, wlock, rlock, call>>

DelUnlock(p) ==
    /\ pc[p] = "del_unlock"
    /\ wlock' = wlock \ {p}
    /\ pc' = [pc EXCEPT ![p] = "idle"]
    /\ call' = [call EXCEPT ![p] = NoCall]
    /\ Leave(p, TRUE, [NoRet EXCEPT !.op = "DelQuote", !.id = call[p].id, !.ok = TRUE,
                                    !.existed = call[p].existed])
    /\ UNCHANGED <<rows, nQuotes, rlock>>

----------------------------------------------------------------------------
\* The operations that are one statement and touch neither lock nor counter.

OneStep(p, r) ==
    /\ pc[p] = "idle"
    /\ solo' = {}
    /\ pre' = NoPre
    /\ wins' = wins \ {p}
    /\ ev' = {[r EXCEPT !.solo = TRUE, !.pre = Snap(r.author, r.quote)]}
    /\ UNCHANGED <<nQuotes, wlock, rlock, pc, call>>

EditQuote(p, id, quote, fault) ==
    LET res == sqlEdit(rows, quote, id)
        r == [NoRet EXCEPT !.op = "EditQuote", !.id = id, !.quote = quote,
                           !.existed = (id \in DOMAIN rows)]
    IN
    IF fault
    THEN /\ rows' = rows
         /\ OneStep(p, [r EXCEPT !.err = "io"])
    ELSE /\ rows' = res.rows
         /\ OneStep(p, [r EXCEPT !.ok = OneRow(res.r)])

\* Scan of a QueryRow: sql.ErrNoRows when the statement returned no row.
RandomQuote(p, fault) ==
    /\ rows' = rows
    /\ LET r == [NoRet EXCEPT !.op = "RandomQuote"] IN
       IF fault THEN OneStep(p, [r EXCEPT !.err = "io"])
       ELSE IF sqlGet(rows) = {} THEN OneStep(p, [r EXCEPT !.err = "ErrNoRows"])
       ELSE \E x \in sqlGet(rows) :
              OneStep(p, [r EXCEPT !.ok = TRUE, !.id = x.id, !.quote = x.quote])

\* What GetQuote returns on table t.
GetQuoteOn(t, id) ==
    IF sqlGetId(t, id) = {} THEN [quote |-> "", err |-> "ErrNoRows"]
    ELSE [quote |-> (CHOOSE x \in sqlGetId(t, id) : TRUE).quote, err |-> "nil"]

GetQuote(p, id, fault) ==
    /\ rows' = rows
    /\ LET r == [NoRet EXCEPT !.op = "GetQuote", !.id = id]
           x == GetQuoteOn(rows, id)
       IN
       IF fault THEN OneStep(p, [r EXCEPT !.err = "io"])
       ELSE OneStep(p, [r EXCEPT !.ok = (x.err = "nil"), !.err = x.err, !.quote = x.quote])

GetDetails(p, id, fault) ==
    /\ rows' = rows
    /\ LET r == [NoRet EXCEPT !.op = "GetDetails", !.id = id]
           s == sqlGetDetail(rows, id)
       IN
       IF fault THEN OneStep(p, [r EXCEPT !.err = "io"])
       ELSE IF s = {} THEN OneStep(p, [r EXCEPT !.err = "ErrNoRows"])
       ELSE LET x == CHOOSE y \in s : TRUE IN
            OneStep(p, [r EXCEPT !.ok = TRUE, !.date = x.date, !.author = x.author])

GetAll(p, fault) ==
    /\ rows' = rows
    /\ LET r == [NoRet EXCEPT !.op = "GetAll"] IN
       IF fault THEN OneStep(p, [r EXCEPT !.err = "io"])
       ELSE OneStep(p, [r EXCEPT !.ok = TRUE, !.quotes = ScanAll(sqlGetAll(rows))])

----------------------------------------------------------------------------
\* OpenDB: createTable, then getCount on whatever the file already holds.

OpenDB(tables) ==
    /\ rows \in tables
    /\ nQuotes = getCount(rows)
    /\ wlock = {}
    /\ rlock = {}
    /\ wins = {}
    /\ solo = {}
    /\ pre = NoPre
    /\ ev = {}

\* A step of goroutine p in one of the operations that change the table or
\* touch the lock and the counter; D, A, T are the dates and the strings
\* AddQuote is given, E the texts EditQuote is given.
Write(p, D, A, T, E) ==
    \/ NqRLock(p)
    \/ NqRead(p)
    \/ NqRUnlock(p)
    \/ \E a \in A, q \in T : AddLock(p, a, q)
    \/ \E now \in D, f \in Faults : AddExec(p, now, f)
    \/ AddInc(p)
    \/ AddUnlock(p)
    \/ \E id \in Ids : DelCall(p, id)
    \/ \E f \in Faults : DelExec(p, f)
    \/ DelLock(p)
    \/ DelDec(p)
    \/ DelUnlock(p)
    \/ \E id \in Ids, q \in E, f \in Faults : EditQuote(p, id, q, f)

\* A step of goroutine p that is one of the reading statements.
Read(p) ==
    \/ \E f \in Faults : RandomQuote(p, f)
    \/ \E id \in Ids, f \in Faults : GetQuote(p, id, f)
    \/ \E id \in Ids, f \in Faults : GetDetails(p, id, f)
    \/ \E f \in Faults : GetAll(p, f)

\* Spec: every goroutine calls whenever it likes.  The reading statements
\* change nothing a goroutine can see and are left to SpecSeq.
Init ==
    /\ OpenDB(TablesOver(FewDates, FewAuthors, FewTexts \cup FewEdits))
    /\ pc = [p \in Procs |-> "idle"]
    /\ call = [p \in Procs |-> NoCall]

Next == \E p \in Procs : Write(p, FewDates, FewAuthors, FewTexts, FewEdits)

Spec == Init /\ [][Next]_vars

\* SpecSeq: one call at a time, made by goroutine 1, with every input.
InitSeq ==
    /\ OpenDB(TablesOver(Dates, Authors, Texts))
    /\ pc = [p \in Procs |-> "idle"]
    /\ call = [p \in Procs |-> NoCall]

NextSeq ==
    \E p \in {1} :
        \/ Write(p, Dates, Authors, Texts, Texts)
        \/ Read(p)

SpecSeq == InitSeq /\ [][NextSeq]_vars

\* SpecRace: on a table with a row for every id, every goroutine has called
\* DelQuote with the same id; no statement fails and nobody calls again.
InitRace ==
    /\ OpenDB(FullTablesOver(Dates, Authors, Texts))
    /\ pc = [p \in Procs |-> "del_exec"]
    /\ \E id \in Ids : call = [p \in Procs |-> [NoCall EXCEPT !.op = "DelQuote", !.id = id]]

NextRace ==
    \E p \in Procs :
        \/ \E f \in {FALSE} : DelExec(p, f)
        \/ DelLock(p)
        \/ DelDec(p)
        \/ DelUnlock(p)

SpecRace == InitRace /\ [][NextRace]_vars

----------------------------------------------------------------------------
\* The properties.

Count == Cardinality(DOMAIN rows)

\* A call is in a window when its statement has changed the number of rows
\* and its counter update has not happened yet.
InWindow(p) == pc[p] \in {"add_inc", "del_lock", "del_dec"}

\* The DelQuote calls whose statement removed a row and whose q.nQuotes-- is
\* still to come.
PendingDels == Cardinality({p \in Procs : pc[p] \in {"del_lock", "del_dec"}})

\* C1: whenever no AddQuote or DelQuote call is between its statement and
\* its counter update, nQuotes is the number of rows of the table.
C1_CountMatchesTable == (\A p \in Procs : ~InWindow(p)) => nQuotes = Count

\* C1 witness: a DelQuote has just decremented while another goroutine is
\* in a call of its own, and nobody is in a window.
C1_Witness ==
    /\ \A p \in Procs : ~InWindow(p)
    /\ \E p, q \in Procs : pc[p] = "del_unlock" /\ pc[q] = "del_exec" /\ nQuotes > 0

\* C2: an AddQuote(a, q) that returns id without error, no other goroutine
\* stepping meanwhile, leaves NQuotes() one above what it was, and
\* GetQuote(id) returns q.
C2_AddThenCountAndGet ==
    \A e \in ev :
        (e.op = "AddQuote" /\ e.solo /\ e.err = "nil") =>
            /\ nQuotes = e.pre.n + 1
            /\ GetQuoteOn(rows, e.id) = [quote |-> e.pre.quote, err |-> "nil"]

\* C2 witness: such an AddQuote has returned, its author differing from its text.
C2_Witness ==
    \E e \in ev : e.op = "AddQuote" /\ e.solo /\ e.err = "nil" /\ e.pre.author # e.pre.quote

\* C3: DelQuote(id) returns true only if its statement found the row, and,
\* the statement not failing, whenever it found it; a call that returns true
\* with no other goroutine stepping meanwhile leaves NQuotes() one below
\* what it was and GetQuote(id) failing with sql.ErrNoRows; a call on an
\* absent id returns false and leaves the count and the table as they were.
C3_DelQuote ==
    \A e \in ev :
        e.op = "DelQuote" =>
            /\ e.ok => e.existed /\ e.err = "nil"
            /\ (e.existed /\ e.err = "nil") => e.ok
            /\ (e.solo /\ e.ok) =>
                  /\ nQuotes = e.pre.n - 1
                  /\ GetQuoteOn(rows, e.id).err = "ErrNoRows"
                  /\ e.id \in DOMAIN e.pre.rows
            /\ (e.solo /\ e.id \notin DOMAIN e.pre.rows) =>
                  /\ ~e.ok
                  /\ nQuotes = e.pre.n
                  /\ rows = e.pre.rows

\* C3 witness: a DelQuote has returned true with no other goroutine stepping
\* meanwhile.
C3_Witness == \E e \in ev : e.op = "DelQuote" /\ e.ok /\ e.solo /\ e.pre.n > 0

\* C4: EditQuote(id, q2) leaves the count, the ids and every row's date and
\* author alone, and the text of every other row; on an existing id (the
\* statement not failing) it returns true and GetQuote(id) returns q2; on an
\* absent id it returns false and the table is as it was.
C4_EditFrame ==
    \A e \in ev :
        e.op = "EditQuote" =>
            LET t == e.pre.rows IN
            /\ nQuotes = e.pre.n
            /\ DOMAIN rows = DOMAIN t
            /\ \A i \in DOMAIN t :
                  /\ rows[i].date = t[i].date
                  /\ rows[i].author = t[i].author
                  /\ i # e.id => rows[i].quote = t[i].quote
            /\ (e.id \in DOMAIN t /\ e.err = "nil") =>
                  /\ e.ok
                  /\ GetQuoteOn(rows, e.id) = [quote |-> e.quote, err |-> "nil"]
            /\ e.id \notin DOMAIN t => ~e.ok /\ rows = t
            /\ e.err # "nil" => ~e.ok /\ rows = t

\* C4 witness: an EditQuote has returned true having changed the text of one
\* row of several.
C4_Witness ==
    \E e \in ev :
        /\ e.op = "EditQuote" /\ e.ok
        /\ Cardinality(DOMAIN rows) >= 2
        /\ e.pre.rows[e.id].quote # e.quote

\* C5: GetAll, after calls that have all returned, returns every row once,
\* as it is stored, in strictly descending id order, as many as NQuotes()
\* says; on an empty table an empty slice and no error.
C5_GetAll ==
    \A e \in ev :
        (e.op = "GetAll" /\ e.err = "nil") =>
            LET L == e.quotes IN
            /\ Len(L) = Count
            /\ Len(L) = nQuotes
            /\ \A i \in DOMAIN rows :
                  \E k \in 1..Len(L) :
                     L[k] = [ID |-> i, Date |-> UnixUTC(rows[i].date),
                             Author |-> rows[i].author, Quote |-> rows[i].quote]
            /\ \A k \in 1..Len(L) : L[k].ID \in DOMAIN rows
            /\ \A k \in 1..(Len(L) - 1) : L[k].ID > L[k + 1].ID
            /\ DOMAIN rows = {} => L = <<>>

\* C5 witness: GetAll has returned several quotes.
C5_Witness == \E e \in ev : e.op = "GetAll" /\ e.err = "nil" /\ Len(e.quotes) >= 2

\* C6: RandomQuote (the statement not failing) fails with sql.ErrNoRows on
\* an empty table, and on any other returns the id of a row GetAll would
\* return and that row's text.
C6_RandomQuote ==
    \A e \in ev :
        (e.op = "RandomQuote" /\ e.err # "io") =>
            /\ DOMAIN rows = {} => e.err = "ErrNoRows"
            /\ DOMAIN rows # {} =>
                  /\ e.err = "nil"
                  /\ e.id \in DOMAIN rows
                  /\ e.quote = rows[e.id].quote
                  /\ \E k \in 1..Len(ScanAll(sqlGetAll(rows))) :
                        /\ ScanAll(sqlGetAll(rows))[k].ID = e.id
                        /\ ScanAll(sqlGetAll(rows))[k].Quote = e.quote

\* C6 witness: RandomQuote has returned a row of a table of several.
C6_Witness == \E e \in ev : e.op = "RandomQuote" /\ e.ok /\ Cardinality(DOMAIN rows) >= 2

C8_LockOnlyAroundCounter ==
    \A p \in wlock :
        /\ pc[p] \in {"add_inc", "add_unlock", "del_dec", "del_unlock"}
        /\ call[p].err = "nil"

\* C8 as amended: DelQuote holds the exclusive lock only around its
\* decrement, after its statement removed a row; AddQuote holds it from its
\* entry to its return, across the insert, whether or not the insert
\* succeeds.  The insert of AddQuote is the only statement executed under
\* the exclusive lock, which one goroutine at most holds, and no reader with it.
C8_LockDiscipline ==
    /\ Cardinality(wlock) <= 1
    /\ wlock # {} => rlock = {}
    /\ \A p \in Procs :
          p \in wlock <=> pc[p] \in {"add_exec", "add_inc", "add_unlock", "del_dec", "del_unlock"}
    /\ \A p \in Procs : pc[p] = "del_exec" => p \notin wlock
    /\ \A p \in Procs : pc[p] \in {"del_dec", "del_unlock"} => call[p].existed

\* C8 witness: a goroutine holds the exclusive lock with its insert still to
\* execute, while another waits for the lock to decrement.
C8_Witness ==
    \E p, q \in Procs : p \in wlock /\ pc[p] = "add_exec" /\ pc[q] = "del_lock"

\* C9: the value NQuotes reads is never negative and is the number of rows
\* at that moment plus the number of DelQuote calls that have removed a row
\* and not yet decremented.
C9_NQuotesRead ==
    [][\A p \in Procs :
          (pc[p] = "nq_read" /\ pc'[p] = "nq_runlock") =>
              /\ call'[p].val >= 0
              /\ call'[p].val >= Count
              /\ call'[p].val = Count + PendingDels]_vars

\* C9 witness: NQuotes has read a value above the number of rows, a DelQuote
\* being between its statement and its decrement.
C9_Witness ==
    \E p, q \in Procs :
        /\ pc[p] = "nq_runlock" /\ pc[q] = "del_lock"
        /\ call[p].val = nQuotes /\ call[p].val = Count + 1

\* C10: of the DelQuote calls racing for the same existing id, one at most
\* has removed the row; when all have returned exactly one has returned
\* true, and the count is one below the number of rows the table had.
WonOrWinning == wins \cup {p \in Procs : pc[p] \in {"del_lock", "del_dec", "del_unlock"}}

C10_OneWinner ==
    /\ Cardinality(WonOrWinning) <= 1
    /\ (\A p \in Procs : pc[p] = "idle") =>
          /\ Cardinality(wins) = 1
          /\ nQuotes = Cardinality(Ids) - 1
          /\ Count = Cardinality(Ids) - 1

\* C10 witness: all the racing calls have returned, one of them true.
C10_Witness == NumProcs >= 2 /\ (\A p \in Procs : pc[p] = "idle") /\ wins # {}

====
